---- MODULE Spec2Model ----
(***************************************************************************)
(* Verification model of the guess-the-song quiz: the text normalizers,    *)
(* the fuzzy matcher, the question generator and the round state machine   *)
(* of the useGameLogic hook together with the game screen that drives it.  *)
(*                                                                         *)
(* Strings are sequences of one-character tokens.  A precomposed accented  *)
(* letter is the token "e~" / "E~" and the combining mark U+0301 is the    *)
(* token "~".  Scores of the fuzzy engine and confidences are hundredths.  *)
(***************************************************************************)
EXTENDS Integers, Sequences, FiniteSets, TLC

NULL == [null |-> TRUE]

\* the names that occur in the explored games
Song == <<"S","o","n","g">>
SongRemix == <<"S","o","n","g"," ","(","R","e","m","i","x",")">>
SongLive == <<"S","o","n","g"," ","-"," ","L","i","v","e">>
SongLower == <<"s","o","n","g">>
Songg == <<"S","o","n","g","g">>
Zed == <<"Z","e","d">>
Ann == <<"A","n","n">>
Annn == <<"A","n","n","n">>
Bob == <<"B","o","b">>
AlbumX == <<"X","a">>
AlbumY == <<"Y","a">>
AlbumZ == <<"Z","a">>
Ode == <<"O","d","e">>
Ivy == <<"I","v","y">>
Kay == <<"K","a","y">>
AnnLower == <<"a","n","n">>
\* an accented name, precomposed and decomposed, and its unaccented spelling
JoseAcute == <<"J","o","s","e~">>
JoseMark == <<"J","o","s","e","~">>
Jose == <<"J","o","s","e">>
KnownStrings ==
    {<<>>, Song, SongRemix, SongLive, SongLower, Songg, Zed, Ann, Annn, Bob,
     AlbumX, AlbumY, AlbumZ, Ode, Ivy, Kay, AnnLower, JoseAcute, JoseMark, Jose}

(***************************************************************************)
(* Characters and generic string helpers                                   *)
(***************************************************************************)
UpperChars == <<"A","B","C","D","E","F","G","H","I","J","K","L","M",
                "N","O","P","Q","R","S","T","U","V","W","X","Y","Z">>
LowerChars == <<"a","b","c","d","e","f","g","h","i","j","k","l","m",
                "n","o","p","q","r","s","t","u","v","w","x","y","z">>

\* the regular-expression class \w
WordChars ==
    {"A","B","C","D","E","F","G","H","I","J","K","L","M",
     "N","O","P","Q","R","S","T","U","V","W","X","Y","Z",
     "a","b","c","d","e","f","g","h","i","j","k","l","m",
     "n","o","p","q","r","s","t","u","v","w","x","y","z",
     "0","1","2","3","4","5","6","7","8","9","_"}

Range(s) == {s[i] : i \in 1..Len(s)}

\* the least member of a non-empty set of integers
Least(S) == CHOOSE x \in S : \A y \in S : x <= y

LowerCharIn(c, upper, lower) ==
    IF c = "E~" THEN "e~"
    ELSE IF \E i \in 1..Len(upper) : upper[i] = c
         THEN lower[CHOOSE i \in 1..Len(upper) : upper[i] = c]
         ELSE c

\* String.prototype.toLowerCase on one character
LowerChar(c) == LowerCharIn(c, UpperChars, LowerChars)

toLowerCase(s) == [i \in 1..Len(s) |-> LowerChar(s[i])]

\* the regular-expression classes \s and \w
IsSpace(c) == c \in {" ", "\n"}
\* the regular-expression class . (no flag s): any character but a line break
IsDot(c) == c # "\n"
IsWordChar(c) == c \in WordChars

\* s.slice(from, to) with 1-based inclusive bounds
Slice(s, from, to) == IF to < from THEN <<>> ELSE SubSeq(s, from, to)

\* whether the literal lit occurs in s at position i
MatchesAt(s, i, lit) ==
    /\ i >= 1
    /\ i + Len(lit) - 1 <= Len(s)
    /\ \A k \in 1..Len(lit) : s[i + k - 1] = lit[k]

\* the first position at or after i that is not whitespace (Len(s)+1 if none)
RECURSIVE SkipSpaces(_, _)
SkipSpaces(s, i) ==
    IF i <= Len(s) /\ IsSpace(s[i]) THEN SkipSpaces(s, i + 1) ELSE i

\* String.prototype.trim
RECURSIVE TrimLeft(_)
TrimLeft(s) == IF s # <<>> /\ IsSpace(Head(s)) THEN TrimLeft(Tail(s)) ELSE s
RECURSIVE TrimRight(_)
TrimRight(s) ==
    IF s # <<>> /\ IsSpace(s[Len(s)]) THEN TrimRight(Slice(s, 1, Len(s) - 1)) ELSE s
trim(s) == TrimRight(TrimLeft(s))

\* .replace(/\s+/g, ' ')
RECURSIVE CollapseSpaces(_)
CollapseSpaces(s) ==
    IF s = <<>> THEN <<>>
    ELSE IF IsSpace(Head(s))
         THEN <<" ">> \o CollapseSpaces(TrimLeft(s))
         ELSE <<Head(s)>> \o CollapseSpaces(Tail(s))

(***************************************************************************)
(* lib/utils: normalizeTrackName, removeAccents, calculateScore            *)
(***************************************************************************)
\* the qualifier vocabulary of both regular expressions of normalizeTrackName
Qualifiers ==
    { <<"d","e","l","u","x","e">>, <<"r","e","m","i","x">>,
      <<"r","e","m","a","s","t","e","r">>, <<"e","d","i","t">>,
      <<"v","e","r","s","i","o","n">>, <<"e","x","t","e","n","d","e","d">>,
      <<"r","a","d","i","o">>, <<"a","c","o","u","s","t","i","c">>,
      <<"l","i","v","e">>, <<"i","n","s","t","r","u","m","e","n","t","a","l">>,
      <<"e","x","p","l","i","c","i","t">> }

IsOpener(c) == c \in {"(", "["}
IsCloser(c) == c \in {")", "]"}

\* the length of a member of hits, 0 when there is none
LenOfHit(hits) == IF hits = {} THEN 0 ELSE Len(CHOOSE q \in hits : TRUE)

\* a qualifier occurs in s at position i (the /i flag: compared in lower case)
QualifierLenAt(s, i) == LenOfHit({q \in Qualifiers : MatchesAt(toLowerCase(s), i, q)})

\* the last position of the line of position i: . matches up to there
RECURSIVE LineEnd(_, _)
LineEnd(s, i) == IF i < Len(s) /\ IsDot(s[i + 1]) THEN LineEnd(s, i + 1) ELSE i

\* the qualifier of length n at position k has a closer behind it, not
\* behind position last
HasCloserBehind(s, k, n, last) == n > 0 /\ \E c \in (k + n)..last : IsCloser(s[c])

\* the first closer at or behind position e
FirstCloserFrom(s, e) ==
    CHOOSE c \in e..Len(s) : IsCloser(s[c]) /\ \A d \in e..(c - 1) : ~IsCloser(s[d])

\* the lazy .*? before the qualifier stops at the first of the starts, the
\* one behind it at the first closer
BracketEndIn(s, starts) ==
    IF starts = {} THEN 0
    ELSE FirstCloserFrom(s, Least(starts) + QualifierLenAt(s, Least(starts)))

\* the match whose opener is at position o, within the line that ends at last
BracketMatchWithin(s, o, last) ==
    BracketEndIn(s, {k \in (o + 1)..last :
                       HasCloserBehind(s, k, QualifierLenAt(s, k), last)})

\* End of the match of /[\(\[].*?(qualifier).*?[\)\]]/ whose opener is at
\* position o: the first closer behind the first qualifier behind the opener
\* that has a closer behind it, all on the line of the opener; 0 when there
\* is no match.
BracketMatchEnd(s, o) ==
    IF o > Len(s) \/ ~IsOpener(s[o]) THEN 0
    ELSE BracketMatchWithin(s, o, LineEnd(s, o))

\* End of the match of /\s*[\(\[].*?(qualifier).*?[\)\]]/ that starts at i
BracketMatchFrom(s, i) == BracketMatchEnd(s, SkipSpaces(s, i))

\* .replace(/\s*[\(\[].*?(deluxe|...).*?[\)\]]/gi, ''): StripBracketed scans
\* from position i, StripBracketedAt continues behind a match ending at e
RECURSIVE StripBracketed(_, _)
RECURSIVE StripBracketedAt(_, _, _)
StripBracketedAt(s, i, e) ==
    IF e > 0 THEN StripBracketed(s, e + 1) ELSE <<s[i]>> \o StripBracketed(s, i + 1)

StripBracketed(s, i) ==
    IF i > Len(s) THEN <<>> ELSE StripBracketedAt(s, i, BracketMatchFrom(s, i))

\* a dash at position d followed, behind optional whitespace, by a qualifier
\* and, up to the end of the string, by no line break
DashAt(s, d) ==
    /\ d <= Len(s)
    /\ s[d] = "-"
    /\ \E k \in (d + 1)..SkipSpaces(s, d + 1) :
           QualifierLenAt(s, k) > 0 /\ \A j \in k..Len(s) : IsDot(s[j])

\* /\s*-\s*(qualifier).*$/ matches from position i
DashMatchFrom(s, i) == DashAt(s, SkipSpaces(s, i))

\* s up to the first of the starts, all of s when there is none
CutAtFirst(s, starts) == IF starts = {} THEN s ELSE Slice(s, 1, Least(starts) - 1)

\* .replace(/\s*-\s*(deluxe|...).*$/gi, '')
StripDashSuffix(s) == CutAtFirst(s, {i \in 1..Len(s) : DashMatchFrom(s, i)})

normalizeTrackName(name) ==
    trim(CollapseSpaces(StripDashSuffix(StripBracketed(toLowerCase(name), 1))))

\* Remove accents/diacritics: .normalize('NFD').replace(/[\u0300-\u036f]/g, '')
removeAccents(str) ==
    LET NFD(c) == IF c = "e~" THEN <<"e", "~">>
                  ELSE IF c = "E~" THEN <<"E", "~">> ELSE <<c>>
        RECURSIVE Decompose(_)
        Decompose(s) == IF s = <<>> THEN <<>> ELSE NFD(Head(s)) \o Decompose(Tail(s))
    IN  SelectSeq(Decompose(str), LAMBDA c : c # "~")

\* Math.round of the rational n / d (d > 0): the nearest integer, halves up
Round(n, d) == (2 * n + d) \div (2 * d)

\* calculateScore with Math.floor in place of Math.round
calculateScoreFloor(isCorrect, timeRemaining, totalTime, currentStreak) ==
    IF ~isCorrect THEN 0
    ELSE (100 * totalTime + 50 * timeRemaining + 10 * currentStreak * totalTime) \div totalTime

\* calculateScore(isCorrect, timeRemaining, totalTime, currentStreak):
\* Math.round(100 + (timeRemaining / totalTime) * 50 + currentStreak * 10)
calculateScore(isCorrect, timeRemaining, totalTime, currentStreak) ==
    IF ~isCorrect THEN 0
    ELSE Round(100 * totalTime + 50 * timeRemaining + 10 * currentStreak * totalTime,
               totalTime)

(***************************************************************************)
(* lib/fuzzyMatch: normalizeString, findBestMatch, isMatch                 *)
(***************************************************************************)
\* the regular-expression assertion \b between positions i - 1 and i
WordBoundary(s, i) ==
    (i - 1 >= 1 /\ IsWordChar(s[i - 1])) # (i <= Len(s) /\ IsWordChar(s[i]))

\* the literal part of /w1[\s-]?w2/ at position i ends at this position; 0 if
\* it does not occur there (w2 empty: the literal is w1)
WordEndAt(s, i, a, w1, w2) ==
    IF ~MatchesAt(s, i, w1) THEN 0
    ELSE IF w2 = <<>> THEN a - 1
    ELSE IF a <= Len(s) /\ (IsSpace(s[a]) \/ s[a] = "-") /\ MatchesAt(s, a + 1, w2)
         THEN a + Len(w2)
    ELSE IF MatchesAt(s, a, w2) THEN a + Len(w2) - 1
    ELSE 0

\* the match from i to e stands between two word boundaries
BoundedEnd(s, i, e) ==
    IF e > 0 /\ WordBoundary(s, i) /\ WordBoundary(s, e + 1) THEN e ELSE 0

\* End of a match at i of /\bw1[\s-]?w2\b/ (w2 empty: /\bw1\b/); 0 if none
WordMatchEnd(s, i, w1, w2) == BoundedEnd(s, i, WordEndAt(s, i, i + Len(w1), w1, w2))

\* .replace(/\bw1[\s-]?w2\b/gi, repl) on a lower-cased string: ReplaceWord
\* scans from position i, ReplaceWordAt continues behind a match ending at e
RECURSIVE ReplaceWord(_, _, _, _, _)
RECURSIVE ReplaceWordAt(_, _, _, _, _, _)
ReplaceWordAt(s, i, e, w1, w2, repl) ==
    IF e > 0 THEN repl \o ReplaceWord(s, e + 1, w1, w2, repl)
    ELSE <<s[i]>> \o ReplaceWord(s, i + 1, w1, w2, repl)

ReplaceWord(s, i, w1, w2, repl) ==
    IF i > Len(s) THEN <<>>
    ELSE ReplaceWordAt(s, i, WordMatchEnd(s, i, w1, w2), w1, w2, repl)

\* the written numbers of normalizeString, in the order the code replaces them
NumberWords ==
    << <<<<"o","n","e">>, <<>>, <<"1">>>>,
       <<<<"t","w","o">>, <<>>, <<"2">>>>,
       <<<<"t","h","r","e","e">>, <<>>, <<"3">>>>,
       <<<<"f","o","u","r">>, <<>>, <<"4">>>>,
       <<<<"f","i","v","e">>, <<>>, <<"5">>>>,
       <<<<"s","i","x">>, <<>>, <<"6">>>>,
       <<<<"s","e","v","e","n">>, <<>>, <<"7">>>>,
       <<<<"e","i","g","h","t">>, <<>>, <<"8">>>>,
       <<<<"n","i","n","e">>, <<>>, <<"9">>>>,
       <<<<"t","e","n">>, <<>>, <<"1","0">>>>,
       <<<<"e","l","e","v","e","n">>, <<>>, <<"1","1">>>>,
       <<<<"t","w","e","l","v","e">>, <<>>, <<"1","2">>>>,
       <<<<"t","h","i","r","t","e","e","n">>, <<>>, <<"1","3">>>>,
       <<<<"f","o","u","r","t","e","e","n">>, <<>>, <<"1","4">>>>,
       <<<<"f","i","f","t","e","e","n">>, <<>>, <<"1","5">>>>,
       <<<<"s","i","x","t","e","e","n">>, <<>>, <<"1","6">>>>,
       <<<<"s","e","v","e","n","t","e","e","n">>, <<>>, <<"1","7">>>>,
       <<<<"e","i","g","h","t","e","e","n">>, <<>>, <<"1","8">>>>,
       <<<<"n","i","n","e","t","e","e","n">>, <<>>, <<"1","9">>>>,
       <<<<"t","w","e","n","t","y">>, <<>>, <<"2","0">>>>,
       <<<<"t","w","e","n","t","y">>, <<"o","n","e">>, <<"2","1">>>>,
       <<<<"t","w","e","n","t","y">>, <<"t","w","o">>, <<"2","2">>>>,
       <<<<"t","h","i","r","t","y">>, <<"t","h","r","e","e">>, <<"3","3">>>>,
       <<<<"f","o","r","t","y">>, <<"t","w","o">>, <<"4","2">>>>,
       <<<<"f","i","f","t","y">>, <<>>, <<"5","0">>>>,
       <<<<"s","i","x","t","y">>, <<>>, <<"6","0">>>>,
       <<<<"s","e","v","e","n","t","y">>, <<>>, <<"7","0">>>>,
       <<<<"e","i","g","h","t","y">>, <<>>, <<"8","0">>>>,
       <<<<"n","i","n","e","t","y">>, <<>>, <<"9","0">>>> >>

\* the number replacements words, applied to s one after the other
RECURSIVE ReplaceNumberWords(_, _)
ReplaceNumberWords(s, words) ==
    IF words = <<>> THEN s
    ELSE ReplaceNumberWords(
             ReplaceWord(s, 1, Head(words)[1], Head(words)[2], Head(words)[3]),
             Tail(words))

Feat == <<" ","f","e","a","t","."," ">>

\* the position behind an optional dot at k
AfterDot(s, k, optDot) == IF optDot /\ k <= Len(s) /\ s[k] = "." THEN k + 1 ELSE k

\* the last position of the whitespace \s+ at m that ends before e; 0 if none
SpacesEnd(m, e) == IF e > m THEN e - 1 ELSE 0

\* the rest of /\s{minLead,}lit\.?\s+/ at i, the leading whitespace ending before j
FeatEndFrom(s, i, j, m, minLead, lit) ==
    IF j - i >= minLead /\ MatchesAt(s, j, lit) THEN SpacesEnd(m, SkipSpaces(s, m)) ELSE 0

FeatEndAfter(s, i, j, minLead, lit, optDot) ==
    FeatEndFrom(s, i, j, AfterDot(s, j + Len(lit), optDot), minLead, lit)

\* End of a match at i of /\s{minLead,}lit\.?\s+/ (the dot only if optDot); 0 if none
FeatMatchEnd(s, i, minLead, lit, optDot) ==
    FeatEndAfter(s, i, SkipSpaces(s, i), minLead, lit, optDot)

\* .replace(/\s{minLead,}lit\.?\s+/gi, ' feat. ') on a lower-cased string:
\* ReplaceFeat scans from position i, ReplaceFeatAt continues behind a match
\* ending at e
RECURSIVE ReplaceFeat(_, _, _, _, _)
RECURSIVE ReplaceFeatAt(_, _, _, _, _, _)
ReplaceFeatAt(s, i, e, minLead, lit, optDot) ==
    IF e > 0 THEN Feat \o ReplaceFeat(s, e + 1, minLead, lit, optDot)
    ELSE <<s[i]>> \o ReplaceFeat(s, i + 1, minLead, lit, optDot)

ReplaceFeat(s, i, minLead, lit, optDot) ==
    IF i > Len(s) THEN <<>>
    ELSE ReplaceFeatAt(s, i, FeatMatchEnd(s, i, minLead, lit, optDot), minLead, lit, optDot)

\* the featuring/ft/feat expressions of normalizeString, in the order the
\* code applies them: /\s*\(feat\.?\s+/, /\s*\(ft\.?\s+/, /\s+featuring\s+/
\* and /\s+ft\.?\s+/
FeatPatterns ==
    << [minLead |-> 0, lit |-> <<"(","f","e","a","t">>, optDot |-> TRUE],
       [minLead |-> 0, lit |-> <<"(","f","t">>, optDot |-> TRUE],
       [minLead |-> 1, lit |-> <<"f","e","a","t","u","r","i","n","g">>, optDot |-> FALSE],
       [minLead |-> 1, lit |-> <<"f","t">>, optDot |-> TRUE] >>

RECURSIVE ReplaceFeats(_, _)
ReplaceFeats(s, patterns) ==
    IF patterns = <<>> THEN s
    ELSE ReplaceFeats(
             ReplaceFeat(s, 1, Head(patterns).minLead, Head(patterns).lit,
                         Head(patterns).optDot),
             Tail(patterns))

\* s from position k on, if k is behind position 4
DropThe(s, k) == IF k > 4 THEN Slice(s, k, Len(s)) ELSE s

\* .replace(/^the\s+/i, '')
StripThe(s) ==
    IF MatchesAt(s, 1, <<"t","h","e">>) THEN DropThe(s, SkipSpaces(s, 4)) ELSE s

\* .replace(/[^\w\s]/g, ' ')
StripSpecial(s) ==
    [i \in 1..Len(s) |-> IF IsWordChar(s[i]) \/ IsSpace(s[i]) THEN s[i] ELSE " "]

normalizeString(str) ==
    trim(CollapseSpaces(StripSpecial(
        ReplaceNumberWords(
            ReplaceFeats(StripThe(trim(toLowerCase(removeAccents(str)))), FeatPatterns),
            NumberWords))))

\* normalizeString and normalizeTrackName, evaluated once for the names that
\* occur in the explored games
normalizedStrings == [s \in KnownStrings |-> normalizeString(s)]
normalized(s) == normalizedStrings[s]
normalizedTrackNames == [s \in KnownStrings |-> normalizeTrackName(s)]
normalizedName(s) == normalizedTrackNames[s]

\* Fuse.js is a library outside the repository.  Its score for a pattern
\* against one item (hundredths, 0 = perfect, -1 = no hit) is given for the
\* strings the model uses: an item equal to the pattern up to case scores 0,
\* one edit in a five-letter pattern scores 20, anything else is no hit.
FuseHits ==
    { << <<"s","o","n","g","g">>, <<"S","o","n","g">>, 20 >>,
      << <<"a","n","n","n">>, <<"A","n","n">>, 25 >> }

\* the score of a member of hits, -1 when there is none
ScoreOfHit(hits) == IF hits = {} THEN -1 ELSE (CHOOSE h \in hits : TRUE)[3]

FuseScore(pattern, item) ==
    IF pattern = toLowerCase(item) THEN 0
    ELSE ScoreOfHit({h \in FuseHits : h[1] = pattern /\ h[2] = item})

\* the first of the best-scoring hits
BestHit(options, scores, hits) ==
    IF hits = {} THEN NULL
    ELSE LET b == CHOOSE i \in hits : \A j \in hits :
                        \/ scores[i] < scores[j]
                        \/ scores[i] = scores[j] /\ i <= j
         IN  [item |-> options[b], score |-> scores[b]]

BestScored(options, scores, threshold) ==
    BestHit(options, scores,
            {i \in 1..Len(options) : scores[i] >= 0 /\ scores[i] <= threshold})

\* fuse.search(pattern)[0] under the given threshold: the best-scoring item
FuseBest(pattern, options, threshold) ==
    BestScored(options, [i \in 1..Len(options) |-> FuseScore(pattern, options[i])],
               threshold)

\* options.indexOf(x), 1-based
IndexOf(options, x) == CHOOSE i \in 1..Len(options) :
                          options[i] = x /\ \A j \in 1..(i - 1) : options[j] # x

\* the result for the options that equal the query after normalization
\* (exact) and for the best fuzzy result (best)
matchResult(options, exact, best) ==
    IF exact # {}
    THEN [match |-> options[Least(exact)], confidence |-> 100, index |-> Least(exact)]
    ELSE IF best = NULL THEN NULL
    ELSE [match |-> best.item,
          \* 1 - (bestResult.score || 1): a score of 0 counts as 1
          confidence |-> 100 - (IF best.score = 0 THEN 100 ELSE best.score),
          index |-> IndexOf(options, best.item)]

matchNormalized(normalizedQuery, options, threshold) ==
    matchResult(options,
                {i \in 1..Len(options) : normalized(options[i]) = normalizedQuery},
                FuseBest(normalizedQuery, options, threshold))

\* findBestMatch(query, options, threshold) for a single query string
findBestMatch(query, options, threshold) ==
    IF query = <<>> \/ options = <<>> THEN NULL
    ELSE matchNormalized(normalized(query), options, threshold)

isMatch(query, target, threshold) ==
    \E result \in {findBestMatch(query, <<target>>, threshold)} :
        result # NULL /\ result.confidence >= 100 - threshold

(***************************************************************************)
(* lib/gameSettings                                                        *)
(***************************************************************************)
getTimeInSeconds(setting) ==
    CASE setting = "quick" -> 10
      [] setting = "normal" -> 20
      [] setting = "relaxed" -> 30
      [] OTHER -> 20

Min(a, b) == IF a <= b THEN a ELSE b

getRoundsCount(setting, trackCount) ==
    CASE setting = "short" -> Min(5, trackCount)
      [] setting = "standard" -> Min(10, trackCount)
      [] setting = "long" -> Min(15, trackCount)
      [] setting = "max" -> Min(30, trackCount)
      [] OTHER -> Min(10, trackCount)

\* milliseconds between the end of a round and the next round / the results
PAUSE_BETWEEN_ROUNDS == 2000

(***************************************************************************)
(* useGameLogic: question generation                                       *)
(***************************************************************************)
\* shuffleArray: Fisher-Yates for i = n-1 down to 1 (0-based), where draw[i]
\* is Math.floor(Math.random() * (i + 1)) of iteration i
RECURSIVE ShuffleFrom(_, _, _)
ShuffleFrom(a, i, draw) ==
    IF i < 1 THEN a
    ELSE ShuffleFrom([a EXCEPT ![i + 1] = a[draw[i] + 1], ![draw[i] + 1] = a[i + 1]],
                     i - 1, draw)

shuffleArray(array, draw) == ShuffleFrom(array, Len(array) - 1, draw)

\* the value of a track that the mode asks for
getOptionValue(mode, t) ==
    IF mode = "artist" THEN t.artist
    ELSE IF mode = "album" THEN t.album
    ELSE t.name

\* the Map key `${normalizedName}-${track.artists[0].toLowerCase()}`
DedupKey(t) == normalizedName(t.name) \o <<"-">> \o toLowerCase(t.artist)

\* the first track of every key, in the order of first occurrence
RECURSIVE DedupTracks(_, _)
DedupTracks(tracks, kept) ==
    IF tracks = <<>> THEN kept
    ELSE DedupTracks(Tail(tracks),
             IF \E i \in 1..Len(kept) : DedupKey(kept[i]) = DedupKey(Head(tracks))
             THEN kept ELSE Append(kept, Head(tracks)))

tracksForQuestions(tracks, mode) ==
    IF mode = "genre" THEN DedupTracks(tracks, <<>>) ELSE tracks

\* Array.from(new Set(seq)): the distinct values in order of first occurrence
RECURSIVE Unique(_, _)
Unique(seq, acc) ==
    IF seq = <<>> THEN acc
    ELSE Unique(Tail(seq),
                IF Head(seq) \in Range(acc) THEN acc ELSE Append(acc, Head(seq)))

\* the accepted spellings of the question that track backs
correctAnswersOf(tracks, mode, track) ==
    IF mode = "genre"
    THEN LET similarTracks == SelectSeq(tracks, LAMBDA t :
                 /\ t.artist = track.artist
                 /\ normalizedName(t.name) = normalizedName(track.name))
         IN  Unique([i \in 1..Len(similarTracks) |-> similarTracks[i].name], <<>>)
    ELSE <<getOptionValue(mode, track)>>

\* the loop of wrong answers without the check against the options chosen so far
RECURSIVE wrongAnswersOfWithDuplicates(_, _, _, _, _, _)
wrongAnswersOfWithDuplicates(shuffled, i, mode, track, correctAnswers, wrong) ==
    IF i > Len(shuffled) \/ Len(wrong) >= 3 THEN wrong
    ELSE LET t == shuffled[i]
             v == getOptionValue(mode, t)
         IN  wrongAnswersOfWithDuplicates(shuffled, i + 1, mode, track, correctAnswers,
                 IF \/ t.id = track.id
                    \/ v \in Range(correctAnswers)
                 THEN wrong ELSE Append(wrong, v))

\* the loop of wrong answers without the check against correctAnswers
RECURSIVE wrongAnswersOfIgnoringVariants(_, _, _, _, _, _)
wrongAnswersOfIgnoringVariants(shuffled, i, mode, track, correctAnswers, wrong) ==
    IF i > Len(shuffled) \/ Len(wrong) >= 3 THEN wrong
    ELSE LET t == shuffled[i]
             v == getOptionValue(mode, t)
         IN  wrongAnswersOfIgnoringVariants(shuffled, i + 1, mode, track, correctAnswers,
                 IF \/ t.id = track.id
                    \/ v = getOptionValue(mode, track)
                    \/ v \in Range(wrong)
                 THEN wrong ELSE Append(wrong, v))

\* the loop that collects up to three wrong answers from the shuffled tracks
RECURSIVE wrongAnswersOf(_, _, _, _, _, _)
wrongAnswersOf(shuffled, i, mode, track, correctAnswers, wrong) ==
    IF i > Len(shuffled) \/ Len(wrong) >= 3 THEN wrong
    ELSE LET t == shuffled[i]
             v == getOptionValue(mode, t)
         IN  wrongAnswersOf(shuffled, i + 1, mode, track, correctAnswers,
                 IF \/ t.id = track.id
                    \/ v \in Range(correctAnswers)
                    \/ v = getOptionValue(mode, track)
                    \/ v \in Range(wrong)
                 THEN wrong ELSE Append(wrong, v))

\* the QuizQuestion of shuffled[index], given its accepted spellings;
\* rnd.options[index] are the draws of its option shuffle and rnd.fix the
\* slot of the defensive repair
questionWith(mode, shuffled, index, rnd, correctAnswers) ==
    LET track == shuffled[index]
        correctAnswer == getOptionValue(mode, track)
        wrong == wrongAnswersOf(shuffled, 1, mode, track, correctAnswers, <<>>)
        options == <<correctAnswer>> \o wrong
        shuffledOptions == Slice(shuffleArray(options, rnd.options[index]), 1,
                                 Min(4, Len(options)))
    IN  [track |-> track,
         options |-> IF correctAnswer \in Range(shuffledOptions) THEN shuffledOptions
                     ELSE [shuffledOptions EXCEPT ![(rnd.fix % Len(shuffledOptions)) + 1]
                                                    = correctAnswer],
         correctAnswer |-> correctAnswer,
         correctAnswers |-> correctAnswers,
         round |-> index]

\* the body of selectedTracks.map
makeQuestion(tracks, mode, shuffled, index, rnd) ==
    questionWith(mode, shuffled, index, rnd, correctAnswersOf(tracks, mode, shuffled[index]))

\* a question for every track of the pool, whatever totalRounds
questionsFromWholePool(tracks, mode, totalRounds, rnd, pool) ==
    LET shuffledTracks == shuffleArray(pool, rnd.tracks)
    IN  [index \in 1..Len(pool) |-> makeQuestion(tracks, mode, shuffledTracks, index, rnd)]

\* the questions drawn from the pool of tracks that back questions
questionsFrom(tracks, mode, totalRounds, rnd, pool) ==
    LET shuffledTracks == shuffleArray(pool, rnd.tracks)
    IN  [index \in 1..Min(totalRounds, Len(pool)) |->
            makeQuestion(tracks, mode, shuffledTracks, index, rnd)]

generateQuestions(tracks, mode, totalRounds, rnd) ==
    IF Len(tracks) < 4 THEN <<>>
    ELSE questionsFrom(tracks, mode, totalRounds, rnd, tracksForQuestions(tracks, mode))

(***************************************************************************)
(* Inputs of the model: track pools, answers the player can give, draws of *)
(* Math.random, and the bounds of the exploration                          *)
(***************************************************************************)

\* three releases of one song by one artist and one other song
Pool ==
    << [id |-> 1, name |-> Song, artist |-> Ann, album |-> AlbumX],
       [id |-> 2, name |-> SongRemix, artist |-> Ann, album |-> AlbumX],
       [id |-> 3, name |-> SongLive, artist |-> Ann, album |-> AlbumY],
       [id |-> 4, name |-> Zed, artist |-> Bob, album |-> AlbumZ] >>

Modes == {"artist", "album", "genre"}

\* what the player can pick or type in each mode
AnswerChoices(m) ==
    IF m = "genre" THEN {Song, SongLower, Songg, Zed}
    ELSE IF m = "artist" THEN {Ann, Annn, Bob}
    ELSE {AlbumX, AlbumZ}

\* the player answers within this many seconds of the start of a round (or
\* in the instant the countdown shows 0)
MaxAnswerDelay == 1
\* voice submissions explored per game
MaxVoice == 1
\* calls of resetGame explored per game
MaxResets == 1

\* a pool below the minimum of four tracks
PoolThree == SubSeq(Pool, 1, 3)

\* seven tracks of six songs: two releases of one song by one artist, and a
\* release with the same title by another artist
PoolSeven ==
    << [id |-> 1, name |-> Song, artist |-> Ann, album |-> AlbumX],
       [id |-> 2, name |-> SongRemix, artist |-> Ann, album |-> AlbumX],
       [id |-> 3, name |-> SongRemix, artist |-> Bob, album |-> AlbumZ],
       [id |-> 4, name |-> Zed, artist |-> Bob, album |-> AlbumZ],
       [id |-> 5, name |-> Ode, artist |-> Ann, album |-> AlbumY],
       [id |-> 6, name |-> Ivy, artist |-> Bob, album |-> AlbumX],
       [id |-> 7, name |-> Kay, artist |-> Ann, album |-> AlbumY] >>

\* two releases of one song whose artist is spelled in two cases
PoolCase ==
    << [id |-> 1, name |-> Song, artist |-> Ann, album |-> AlbumX],
       [id |-> 2, name |-> SongRemix, artist |-> AnnLower, album |-> AlbumX],
       [id |-> 3, name |-> Zed, artist |-> Bob, album |-> AlbumZ],
       [id |-> 4, name |-> Ode, artist |-> Bob, album |-> AlbumY],
       [id |-> 5, name |-> Ivy, artist |-> Bob, album |-> AlbumZ] >>

\* a remix that comes before the plain release of the same song
PoolVariantFirst ==
    << [id |-> 1, name |-> SongRemix, artist |-> Ann, album |-> AlbumX],
       [id |-> 2, name |-> Song, artist |-> Ann, album |-> AlbumX],
       [id |-> 3, name |-> Zed, artist |-> Bob, album |-> AlbumZ],
       [id |-> 4, name |-> Ode, artist |-> Bob, album |-> AlbumY],
       [id |-> 5, name |-> Ivy, artist |-> Bob, album |-> AlbumZ] >>

\* the pools handed to the question generator
GenPools == {Pool, PoolThree, PoolSeven, PoolCase, PoolVariantFirst}

\* draws of Math.random for pools of up to seven tracks: always (almost) 0,
\* always (almost) 1, or always one half
GenDraws == {[i \in 0..6 |-> 0], [i \in 0..6 |-> i], [i \in 0..6 |-> (i + 1) \div 2]}
GenRandoms ==
    { [tracks |-> d, options |-> [q \in 1..7 |-> e], fix |-> 0] : d \in GenDraws, e \in GenDraws }

\* Math.random() always returning (almost) 0, or (almost) 1
DrawFirst == [i \in 0..3 |-> 0]
DrawLast == [i \in 0..3 |-> i]
GameRandoms ==
    { [tracks |-> d, options |-> [q \in 1..4 |-> d], fix |-> 0] : d \in {DrawFirst, DrawLast} }

(***************************************************************************)
(* State: the props and React state of useGameLogic, the state and refs of *)
(* GameScreen, and the callbacks that are scheduled                        *)
(***************************************************************************)
VARIABLES
    mode, tracks, settings,          \* props of useGameLogic
    questions, currentRound, timeRemaining, score, streak, maxStreak,
    roundResults, isPlaying, isPaused, gameResult,    \* useState of the hook
    showFeedback, answerFeedback,    \* useState of GameScreen
    processingAnswerRef, hasStartedRef,               \* useRef of GameScreen
    timers,              \* pending setTimeout callbacks of handleAnswer, oldest first
    startPending,        \* the screen's setTimeout(() => startRound(), 1000)
    releasePending,      \* the screen's 2100 ms timer of handleAnswerClick
    intervalActive,      \* the setInterval of the timer effect is running
    timerEffectPending,  \* the committed timer effect has not run yet
    deferredTimeout,     \* closure of a timer effect whose state updates await a render
    voice,               \* a voice submission under way: its answer and closure
    voiceCount, resets,  \* exploration counters
    catalog,             \* the catalog fetch of the screen's load effect
    raw, candidates,     \* a string and a list of strings handed to the text functions
    key, found           \* a call of normalizeTrackName, one of findBestMatch: input and result

props == <<mode, tracks, settings>>
vars == <<mode, tracks, settings, questions, currentRound, timeRemaining, score, streak,
          maxStreak, roundResults, isPlaying, isPaused, gameResult, showFeedback,
          answerFeedback, processingAnswerRef, hasStartedRef, timers, startPending,
          releasePending, intervalActive, timerEffectPending, deferredTimeout, voice,
          voiceCount, resets, catalog, raw, candidates, key, found>>

\* what no handler of the hook or of the playing screen writes
offstage == <<catalog, raw, candidates, key, found>>
\* the hook and the screen
stage == <<mode, tracks, settings, questions, currentRound, timeRemaining, score, streak,
           maxStreak, roundResults, isPlaying, isPaused, gameResult, showFeedback,
           answerFeedback, processingAnswerRef, hasStartedRef, timers, startPending,
           releasePending, intervalActive, timerEffectPending, deferredTimeout, voice,
           voiceCount, resets>>

ROUND_TIME == getTimeInSeconds(settings.timePerRound)
totalRounds == getRoundsCount(settings.rounds, Len(tracks))

\* everything a handler can write, as one record
W == [questions |-> questions, currentRound |-> currentRound,
      timeRemaining |-> timeRemaining, score |-> score, streak |-> streak,
      maxStreak |-> maxStreak, roundResults |-> roundResults, isPlaying |-> isPlaying,
      isPaused |-> isPaused, gameResult |-> gameResult, showFeedback |-> showFeedback,
      answerFeedback |-> answerFeedback, processingAnswerRef |-> processingAnswerRef,
      hasStartedRef |-> hasStartedRef, timers |-> timers, startPending |-> startPending,
      releasePending |-> releasePending]

\* the values a render hands to the closures of its handlers and effects
ClosureOf(w) ==
    [questions |-> w.questions, currentRound |-> w.currentRound,
     timeRemaining |-> w.timeRemaining, streak |-> w.streak, maxStreak |-> w.maxStreak,
     roundResults |-> w.roundResults, isPlaying |-> w.isPlaying, isPaused |-> w.isPaused,
     showFeedback |-> w.showFeedback]

(***************************************************************************)
(* useGameLogic: the handlers, as functions of the state w they write and  *)
(* of the closure c (the render) they read                                 *)
(***************************************************************************)
\* the check of an answer with the fuzzy fallback in every mode
answerIsCorrectFuzzyAlways(m, answer, correctAnswers) ==
    \E i \in 1..Len(correctAnswers) :
        \/ answer = correctAnswers[i]
        \/ isMatch(answer, correctAnswers[i], 30)

\* some(correct => answer === correct || (mode === 'genre' && isMatch(...)))
answerIsCorrect(m, answer, correctAnswers) ==
    \E i \in 1..Len(correctAnswers) :
        \/ answer = correctAnswers[i]
        \/ m = "genre" /\ isMatch(answer, correctAnswers[i], 30)

startRound(w, roundTime) ==
    [w EXCEPT !.isPlaying = TRUE, !.isPaused = FALSE, !.timeRemaining = roundTime]

\* the RoundResult of an answer to question that is correct or not
roundResult(c, answer, roundTime, question, isCorrect) ==
    [round |-> c.currentRound + 1,
     track |-> question.track.id,
     userAnswer |-> answer,
     correctAnswer |-> question.correctAnswer,
     isCorrect |-> isCorrect,
     timeRemaining |-> c.timeRemaining,
     points |-> calculateScore(isCorrect, c.timeRemaining, roundTime, c.streak),
     streak |-> IF isCorrect THEN c.streak + 1 ELSE 0]

\* the RoundResult that handleAnswer(answer) builds in the render c
roundResultOf(m, c, answer, roundTime) ==
    roundResult(c, answer, roundTime, c.questions[c.currentRound + 1],
                answerIsCorrect(m, answer, c.questions[c.currentRound + 1].correctAnswers))

\* the timeout that handleAnswer sets: finishGame after the last round, the
\* next round otherwise
answerTimer(c, result) ==
    IF c.currentRound + 1 >= Len(c.questions)
    THEN [kind |-> "finish", results |-> Append(c.roundResults, result)]
    ELSE [kind |-> "next", results |-> <<>>]

handleAnswerAccepts(c) == c.isPlaying /\ c.currentRound < Len(c.questions)

\* the state updates of handleAnswer that leave the streak alone after an
\* incorrect answer
recordAnswerKeepsStreak(w, c, result) ==
    [w EXCEPT
       !.streak = IF result.isCorrect THEN result.streak ELSE @,
       !.maxStreak = IF result.streak > c.maxStreak THEN result.streak ELSE @,
       !.score = @ + result.points,
       !.roundResults = Append(@, result),
       !.isPlaying = FALSE]

\* the state updates of handleAnswer: plain values come from the closure,
\* functional updates apply to the state as it is
recordAnswer(w, c, result) ==
    [w EXCEPT
       !.streak = result.streak,
       !.maxStreak = IF result.streak > c.maxStreak THEN result.streak ELSE @,
       !.score = @ + result.points,
       !.roundResults = Append(@, result),
       !.isPlaying = FALSE]

\* the setTimeout of handleAnswer
scheduleNext(w, c, result) == [w EXCEPT !.timers = Append(@, answerTimer(c, result))]

\* handleAnswer without its setTimeout
handleAnswerState(w, c, m, answer, roundTime) ==
    IF ~handleAnswerAccepts(c) THEN w
    ELSE recordAnswer(w, c, roundResultOf(m, c, answer, roundTime))

\* handleAnswer behind its guard, for the RoundResult it builds
handleAnswerWith(w, c, result) == scheduleNext(recordAnswer(w, c, result), c, result)

handleAnswer(w, c, m, answer, roundTime) ==
    IF ~handleAnswerAccepts(c) THEN w
    ELSE handleAnswerWith(w, c, roundResultOf(m, c, answer, roundTime))

RECURSIVE SumPoints(_)
SumPoints(results) ==
    IF results = <<>> THEN 0 ELSE results[1].points + SumPoints(Tail(results))

RECURSIVE MaxOfStreaks(_)
MaxOfStreaks(results) ==
    IF results = <<>> THEN 0
    ELSE LET rest == MaxOfStreaks(Tail(results))
         IN  IF results[1].streak > rest THEN results[1].streak ELSE rest

CountCorrect(results) == Cardinality({i \in 1..Len(results) : results[i].isCorrect})

\* accuracy is kept as the fraction correctAnswers / results.length
finishGame(w, m, results) ==
    [w EXCEPT !.gameResult =
        [totalScore |-> SumPoints(results),
         accuracy |-> <<CountCorrect(results), Len(results)>>,
         maxStreak |-> MaxOfStreaks(results),
         rounds |-> results,
         mode |-> m]]

pauseGame(w, c) ==
    IF c.isPlaying /\ ~c.isPaused THEN [w EXCEPT !.isPaused = TRUE] ELSE w

resumeGame(w, c) ==
    IF c.isPlaying /\ c.isPaused THEN [w EXCEPT !.isPaused = FALSE] ELSE w

\* resetGame without setMaxStreak(0)
resetGameKeepsMaxStreak(w, roundTime, newQuestions) ==
    [w EXCEPT !.currentRound = 0, !.timeRemaining = roundTime, !.score = 0,
              !.streak = 0, !.roundResults = <<>>,
              !.isPlaying = FALSE, !.isPaused = FALSE, !.gameResult = NULL,
              !.questions = newQuestions]

resetGame(w, roundTime, newQuestions) ==
    [w EXCEPT !.currentRound = 0, !.timeRemaining = roundTime, !.score = 0,
              !.streak = 0, !.maxStreak = 0, !.roundResults = <<>>,
              !.isPlaying = FALSE, !.isPaused = FALSE, !.gameResult = NULL,
              !.questions = newQuestions]

(***************************************************************************)
(* GameScreen                                                              *)
(***************************************************************************)
\* No artist is selected in the explored games, so isAllAlbumsMode is false
\* and the album drill-down of the browse grid is never taken.
handleAnswerClick(w, c, m, answer, roundTime) ==
    IF ~c.isPlaying \/ c.showFeedback \/ c.currentRound >= Len(c.questions) THEN w
    ELSE IF w.processingAnswerRef THEN w
    ELSE
        LET currentQuestion == c.questions[c.currentRound + 1]
            w1 == [w EXCEPT
                     !.processingAnswerRef = TRUE,
                     !.answerFeedback =
                         [selectedAnswer |-> answer,
                          isCorrect |-> answerIsCorrect(m, answer, currentQuestion.correctAnswers)],
                     !.showFeedback = TRUE]
            w2 == handleAnswer(w1, c, m, answer, roundTime)
        IN  [w2 EXCEPT !.releasePending = TRUE]

\* the effect that starts the first round, run on the committed state
\* the effect without the test of hasStartedRef
startFirstRoundEffectWithoutRef(w) ==
    LET w1 == IF Len(tracks) > 0 /\ w.currentRound = 0 /\ ~w.isPlaying
              THEN [w EXCEPT !.hasStartedRef = TRUE, !.startPending = TRUE]
              ELSE w
    IN  IF w.currentRound > 0 THEN [w1 EXCEPT !.hasStartedRef = FALSE] ELSE w1

startFirstRoundEffect(w) ==
    LET w1 == IF Len(tracks) > 0 /\ w.currentRound = 0 /\ ~w.isPlaying /\ ~w.hasStartedRef
              THEN [w EXCEPT !.hasStartedRef = TRUE, !.startPending = TRUE]
              ELSE w
    IN  IF w.currentRound > 0 THEN [w1 EXCEPT !.hasStartedRef = FALSE] ELSE w1

(***************************************************************************)
(* Rendering.  A handler and the render it causes are one step.  The timer *)
(* effect of a render caused by a timer runs in a later task; a click that *)
(* arrives first makes React run that effect, with the closure of the      *)
(* render that scheduled it, before the click's own render.  The effect's  *)
(* setTimeout is then set at once, but its state updates have the default  *)
(* priority: the click's render leaves them out and the render after it    *)
(* applies them.  The gap is kept where the effect would commit a timeout; *)
(* elsewhere the effect only clears or restarts the interval.              *)
(***************************************************************************)
Deps(w) == <<w.isPlaying, w.isPaused, w.timeRemaining>>

Counting(w) == w.isPlaying /\ ~w.isPaused /\ w.timeRemaining > 0
TimedOut(w) == w.isPlaying /\ ~w.isPaused /\ w.timeRemaining <= 0

SetW(w) ==
    /\ questions' = w.questions
    /\ currentRound' = w.currentRound
    /\ timeRemaining' = w.timeRemaining
    /\ score' = w.score
    /\ streak' = w.streak
    /\ maxStreak' = w.maxStreak
    /\ roundResults' = w.roundResults
    /\ isPlaying' = w.isPlaying
    /\ isPaused' = w.isPaused
    /\ gameResult' = w.gameResult
    /\ showFeedback' = w.showFeedback
    /\ answerFeedback' = w.answerFeedback
    /\ processingAnswerRef' = w.processingAnswerRef
    /\ hasStartedRef' = w.hasStartedRef
    /\ timers' = w.timers
    /\ startPending' = w.startPending
    /\ releasePending' = w.releasePending

\* render after a timer callback wrote w
CommitAsync(written) ==
    \E w \in {written} : \E changed \in {Deps(w) # Deps(W)} :
        /\ \E committed \in {startFirstRoundEffect(w)} : SetW(committed)
        /\ timerEffectPending' = IF changed THEN TimedOut(w) ELSE timerEffectPending
        /\ intervalActive' = IF changed THEN Counting(w) ELSE intervalActive
        /\ deferredTimeout' = NULL

\* render after a click handler wrote w: w1 is the state after the flush of
\* a pending timer effect, w2 the state after the effects of this render
CommitSync(w) ==
    LET c == ClosureOf(W)
        flushed == timerEffectPending /\ handleAnswerAccepts(c)
    IN  \E w1 \in {IF flushed
                   THEN scheduleNext(w, c, roundResultOf(mode, c, <<>>, ROUND_TIME))
                   ELSE w} :
        \E w2 \in {IF Deps(w1) # Deps(W) /\ TimedOut(w1)
                   THEN handleAnswer(w1, ClosureOf(w1), mode, <<>>, ROUND_TIME)
                   ELSE w1} :
            /\ SetW(startFirstRoundEffect(w2))
            /\ timerEffectPending' = FALSE
            /\ intervalActive' = IF Deps(w1) # Deps(W) THEN Counting(w1)
                                 ELSE IF timerEffectPending THEN FALSE ELSE intervalActive
            /\ deferredTimeout' = IF flushed THEN c ELSE NULL

\* the screen shows the game, and no render is outstanding
mounted == gameResult = NULL /\ deferredTimeout = NULL

\* the moments at which the player acts
PlayerActs == timeRemaining <= 0 \/ ROUND_TIME - timeRemaining <= MaxAnswerDelay

(***************************************************************************)
(* Actions                                                                 *)
(***************************************************************************)
InitIn(modes, times) ==
    /\ mode \in modes
    /\ tracks = Pool
    /\ settings \in [rounds : {"short"}, timePerRound : times, allowPause : {TRUE}]
    /\ \E rnd \in GameRandoms : questions = generateQuestions(tracks, mode, totalRounds, rnd)
    /\ currentRound = 0
    /\ timeRemaining = ROUND_TIME
    /\ score = 0 /\ streak = 0 /\ maxStreak = 0
    /\ roundResults = <<>>
    /\ isPlaying = FALSE /\ isPaused = FALSE
    /\ gameResult = NULL
    /\ showFeedback = FALSE /\ answerFeedback = NULL
    /\ processingAnswerRef = FALSE
    /\ hasStartedRef = TRUE /\ startPending = TRUE
    /\ timers = <<>> /\ releasePending = FALSE
    /\ intervalActive = FALSE /\ timerEffectPending = FALSE
    /\ deferredTimeout = NULL
    /\ voice = NULL /\ voiceCount = 0 /\ resets = 0
    /\ catalog = [phase |-> "loaded", next |-> 0, results |-> <<>>, failed |-> FALSE]
    /\ raw = <<>> /\ candidates = <<>> /\ key = NULL /\ found = NULL

\* a game in the mode with fuzzy matching; the pool yields two questions
Init == InitIn({"genre"}, {"quick", "normal"})

\* setTimeout(() => startRound(), 1000) of the screen fires
StartTimerFire ==
    /\ mounted /\ startPending /\ ~timerEffectPending
    /\ CommitAsync(startRound([W EXCEPT !.startPending = FALSE], ROUND_TIME))
    /\ UNCHANGED <<props, offstage, voice, voiceCount, resets>>

\* the interval callback: setTimeRemaining(prev => prev - 1)
Tick ==
    /\ mounted /\ intervalActive /\ ~timerEffectPending
    /\ CommitAsync([W EXCEPT !.timeRemaining = @ - 1])
    /\ UNCHANGED <<props, offstage, voice, voiceCount, resets>>

\* the timer effect of a render with timeRemaining <= 0: handleAnswer('')
FlushTimerEffect ==
    /\ mounted /\ timerEffectPending
    /\ SetW(startFirstRoundEffect(handleAnswer(W, ClosureOf(W), mode, <<>>, ROUND_TIME)))
    /\ timerEffectPending' = FALSE
    /\ intervalActive' = FALSE
    /\ deferredTimeout' = NULL
    /\ UNCHANGED <<props, offstage, voice, voiceCount, resets>>

\* the render that applies the state updates of a timer effect that a click
\* made run
ApplyDeferredTimeout ==
    /\ deferredTimeout # NULL
    /\ CommitAsync(handleAnswerState(W, deferredTimeout, mode, <<>>, ROUND_TIME))
    /\ UNCHANGED <<props, offstage, voice, voiceCount, resets>>

\* the timeout of handleAnswer for a round that is not the last
NextTimerFire ==
    /\ mounted /\ ~startPending /\ ~timerEffectPending
    /\ timers # <<>> /\ Head(timers).kind = "next"
    /\ CommitAsync(startRound([W EXCEPT !.currentRound = @ + 1, !.timers = Tail(@)],
                              ROUND_TIME))
    /\ UNCHANGED <<props, offstage, voice, voiceCount, resets>>

\* the timeout of handleAnswer for the last round
FinishTimerFire ==
    /\ mounted /\ ~startPending /\ ~timerEffectPending
    /\ timers # <<>> /\ Head(timers).kind = "finish"
    /\ CommitAsync(finishGame([W EXCEPT !.timers = Tail(@)], mode, Head(timers).results))
    /\ UNCHANGED <<props, offstage, voice, voiceCount, resets>>

\* the 2100 ms timeout of handleAnswerClick; every timeout of handleAnswer
\* that was set no later is due 100 ms earlier
ReleaseTimerFire ==
    /\ mounted /\ releasePending /\ timers = <<>> /\ ~timerEffectPending
    /\ CommitAsync([W EXCEPT !.showFeedback = FALSE, !.answerFeedback = NULL,
                             !.processingAnswerRef = FALSE, !.releasePending = FALSE])
    /\ UNCHANGED <<props, offstage, voice, voiceCount, resets>>

\* the player picks an answer in the browse grid or the search box
AnswerClick ==
    /\ mounted /\ PlayerActs
    /\ \E answer \in AnswerChoices(mode) :
           CommitSync(handleAnswerClick(W, ClosureOf(W), mode, answer, ROUND_TIME))
    /\ UNCHANGED <<props, offstage, voice, voiceCount, resets>>

\* the player clicks the timer card: pauseGame or resumeGame
PauseClick ==
    /\ mounted /\ PlayerActs /\ ~isPaused
    /\ CommitSync(IF settings.allowPause /\ isPlaying /\ ~showFeedback
                  THEN pauseGame(W, ClosureOf(W)) ELSE W)
    /\ UNCHANGED <<props, offstage, voice, voiceCount, resets>>

ResumeClick ==
    /\ mounted /\ isPaused
    /\ CommitSync(IF settings.allowPause /\ isPlaying /\ ~showFeedback
                  THEN resumeGame(W, ClosureOf(W)) ELSE W)
    /\ UNCHANGED <<props, offstage, voice, voiceCount, resets>>

\* the player clicks the microphone: VoiceInput.handleVoiceInput starts with
\* the onAnswer of this render and later submits one of possibleAnswers
VoiceStart ==
    /\ mounted /\ PlayerActs
    /\ isPlaying /\ ~showFeedback /\ currentRound < Len(questions)
    /\ voice = NULL /\ voiceCount < MaxVoice
    /\ \E i \in 1..Len(questions[currentRound + 1].options) :
           voice' = [answer |-> questions[currentRound + 1].options[i], c |-> ClosureOf(W)]
    /\ voiceCount' = voiceCount + 1
    /\ UNCHANGED <<props, offstage, questions, currentRound, timeRemaining, score, streak, maxStreak,
                   roundResults, isPlaying, isPaused, gameResult, showFeedback,
                   answerFeedback, processingAnswerRef, hasStartedRef, timers,
                   startPending, releasePending, intervalActive, timerEffectPending,
                   deferredTimeout, resets>>

\* setTimeout(() => onAnswer(match.match), 1000) of handleVoiceInput fires;
\* nothing cancels it
VoiceSubmit ==
    /\ mounted /\ voice # NULL /\ ~timerEffectPending
    /\ CommitAsync(handleAnswerClick(W, voice.c, mode, voice.answer, ROUND_TIME))
    /\ voice' = NULL
    /\ UNCHANGED <<props, offstage, voiceCount, resets>>

Next ==
    \/ StartTimerFire
    \/ Tick
    \/ FlushTimerEffect
    \/ ApplyDeferredTimeout
    \/ NextTimerFire
    \/ FinishTimerFire
    \/ ReleaseTimerFire
    \/ AnswerClick
    \/ PauseClick
    \/ ResumeClick
    \/ VoiceStart
    \/ VoiceSubmit

Spec == Init /\ [][Next]_vars

\* resetGame is exported by the hook; no screen calls it.  It is explored as
\* a call that a consumer of the hook may make from a click handler, in
\* games played with clicks and timeouts.
ResetGame ==
    /\ deferredTimeout = NULL
    /\ resets < MaxResets
    /\ \E rnd \in GameRandoms :
           CommitSync(resetGame(W, ROUND_TIME,
                                generateQuestions(tracks, mode, totalRounds, rnd)))
    /\ resets' = resets + 1
    /\ UNCHANGED <<props, offstage, voice, voiceCount>>

NextReset ==
    \/ StartTimerFire
    \/ Tick
    \/ FlushTimerEffect
    \/ ApplyDeferredTimeout
    \/ NextTimerFire
    \/ FinishTimerFire
    \/ ReleaseTimerFire
    \/ AnswerClick
    \/ ResetGame

InitReset == InitIn({"genre"}, {"quick"})

SpecReset == InitReset /\ [][NextReset]_vars

\* games in every mode, played with clicks and timeouts only
InitModes == InitIn(Modes, {"quick"})

NextModes ==
    \/ StartTimerFire
    \/ Tick
    \/ FlushTimerEffect
    \/ ApplyDeferredTimeout
    \/ NextTimerFire
    \/ FinishTimerFire
    \/ ReleaseTimerFire
    \/ AnswerClick

SpecModes == InitModes /\ [][NextModes]_vars

\* the hook mounted with any of the pools in any mode, before the effect
\* that initializes the questions has run
InitGen ==
    /\ mode \in Modes
    /\ tracks \in GenPools
    /\ settings = [rounds |-> "short", timePerRound |-> "quick", allowPause |-> TRUE]
    /\ questions = <<>>
    /\ currentRound = 0
    /\ timeRemaining = ROUND_TIME
    /\ score = 0 /\ streak = 0 /\ maxStreak = 0
    /\ roundResults = <<>>
    /\ isPlaying = FALSE /\ isPaused = FALSE
    /\ gameResult = NULL
    /\ showFeedback = FALSE /\ answerFeedback = NULL
    /\ processingAnswerRef = FALSE
    /\ hasStartedRef = TRUE /\ startPending = TRUE
    /\ timers = <<>> /\ releasePending = FALSE
    /\ intervalActive = FALSE /\ timerEffectPending = FALSE
    /\ deferredTimeout = NULL
    /\ voice = NULL /\ voiceCount = 0 /\ resets = 0
    /\ catalog = [phase |-> "loaded", next |-> 0, results |-> <<>>, failed |-> FALSE]
    /\ raw = <<>> /\ candidates = <<>> /\ key = NULL /\ found = NULL

\* the effect that initializes the questions:
\* if (tracks.length > 0) setQuestions(generateQuestions())
InitializeQuestions ==
    /\ questions = <<>> /\ resets = 0
    /\ Len(tracks) > 0
    /\ \E rnd \in GenRandoms :
           CommitAsync([W EXCEPT !.questions = generateQuestions(tracks, mode, totalRounds, rnd)])
    /\ UNCHANGED <<props, offstage, voice, voiceCount, resets>>

\* resetGame draws the questions again
Regenerate ==
    /\ resets < MaxResets
    /\ \E rnd \in GenRandoms :
           CommitSync(resetGame(W, ROUND_TIME,
                                generateQuestions(tracks, mode, totalRounds, rnd)))
    /\ resets' = resets + 1
    /\ UNCHANGED <<props, offstage, voice, voiceCount>>

NextGen ==
    \/ InitializeQuestions
    \/ Regenerate

SpecGen == InitGen /\ [][NextGen]_vars

(***************************************************************************)
(* The text functions on their own: findBestMatch over lists of candidates *)
(* and normalizeTrackName over strings                                     *)
(***************************************************************************)
\* no game is mounted
StageIdle ==
    /\ mode = "genre"
    /\ tracks = <<>>
    /\ settings = [rounds |-> "short", timePerRound |-> "quick", allowPause |-> TRUE]
    /\ questions = <<>>
    /\ currentRound = 0
    /\ timeRemaining = ROUND_TIME
    /\ score = 0 /\ streak = 0 /\ maxStreak = 0
    /\ roundResults = <<>>
    /\ isPlaying = FALSE /\ isPaused = FALSE
    /\ gameResult = NULL
    /\ showFeedback = FALSE /\ answerFeedback = NULL
    /\ processingAnswerRef = FALSE
    /\ hasStartedRef = FALSE /\ startPending = FALSE
    /\ timers = <<>> /\ releasePending = FALSE
    /\ intervalActive = FALSE /\ timerEffectPending = FALSE
    /\ deferredTimeout = NULL
    /\ voice = NULL /\ voiceCount = 0 /\ resets = 0

\* the strings a list of candidates is made of
MatchStrings == {Song, SongLower, Songg, Zed, <<>>}
\* thresholds: exact only, the 0.3 of isMatch, the 0.4 of the voice input
Thresholds == {0, 30, 40}
\* the longest list of candidates
MaxCandidates == 3

InitMatch ==
    /\ StageIdle
    /\ catalog = [phase |-> "loaded", next |-> 0, results |-> <<>>, failed |-> FALSE]
    /\ raw = <<>> /\ candidates = <<>> /\ key = NULL /\ found = NULL

\* one more option in the list handed to findBestMatch
AddCandidate ==
    /\ Len(candidates) < MaxCandidates
    /\ \E s \in MatchStrings : candidates' = Append(candidates, s)
    /\ found' = NULL
    /\ UNCHANGED <<stage, catalog, raw, key>>

\* findBestMatch(c, candidates, t) for a member c of the list
FindBestMatch ==
    /\ \E i \in 1..Len(candidates) : \E t \in Thresholds :
           found' = [query |-> candidates[i], threshold |-> t,
                     result |-> findBestMatch(candidates[i], candidates, t)]
    /\ UNCHANGED <<stage, catalog, raw, candidates, key>>

NextMatch ==
    \/ AddCandidate
    \/ FindBestMatch

SpecMatch == InitMatch /\ [][NextMatch]_vars

\* the pieces a track name is made of: a letter, white space with and
\* without a line break, the punctuation of the two regular expressions, a
\* qualifier, a letter with an accent and a combining accent
Fragments ==
    { <<"A">>, <<" ">>, <<"\n">>, <<"-">>, <<"(">>, <<")">>,
      <<"l","i","v","e">>, <<"e~">>, <<"~">> }
\* the most pieces in a name
MaxFragments == 4

\* the strings of up to n pieces
RECURSIVE StringsOf(_)
StringsOf(n) ==
    IF n = 0 THEN {<<>>}
    ELSE LET shorter == StringsOf(n - 1)
         IN  shorter \cup {s \o f : s \in shorter, f \in Fragments}

InitNormalize ==
    /\ StageIdle
    /\ catalog = [phase |-> "loaded", next |-> 0, results |-> <<>>, failed |-> FALSE]
    /\ raw \in StringsOf(MaxFragments)
    /\ candidates = <<>> /\ key = NULL /\ found = NULL

\* normalizeTrackName(raw)
NormalizeTrackName ==
    /\ key = NULL
    /\ key' = [of |-> raw, name |-> normalizeTrackName(raw)]
    /\ UNCHANGED <<stage, catalog, raw, candidates, found>>

\* normalizeTrackName applied to a name it returned
NormalizeAgain ==
    /\ key # NULL /\ key.name # key.of
    /\ key' = [of |-> key.name, name |-> normalizeTrackName(key.name)]
    /\ UNCHANGED <<stage, catalog, raw, candidates, found>>

NextNormalize ==
    \/ NormalizeTrackName
    \/ NormalizeAgain

SpecNormalize == InitNormalize /\ [][NextNormalize]_vars

(***************************************************************************)
(* useSpotify.getTracksForMode in artist mode and the screen's effect that *)
(* loads the tracks                                                        *)
(***************************************************************************)
\* what the batches of fetchArtistTopTracks return, batch by batch: the
\* second batch holds three releases of one song, the plain one last, the
\* third a second release of a song of the first batch that has no plain
\* release, and a second copy of a plain one
Batches ==
    << SubSeq(PoolSeven, 3, 6),
       << PoolSeven[2],
          [id |-> 8, name |-> SongLive, artist |-> Ann, album |-> AlbumY],
          PoolSeven[1] >>,
       << PoolSeven[7],
          [id |-> 9, name |-> SongLive, artist |-> Bob, album |-> AlbumZ],
          [id |-> 10, name |-> Zed, artist |-> Bob, album |-> AlbumX] >> >>

\* track.name.toLowerCase() !== normalizedName
hasVariation(track) == toLowerCase(track.name) # normalizedName(track.name)

\* the body of forEach without the replacement by the cleaner version
keepFirst(trackMap, track, hit) ==
    IF hit = {} THEN Append(trackMap, track) ELSE trackMap

\* the body of validTracks.forEach: hit holds the place of the track with
\* the same key in trackMap, if there is one
keepCleaner(trackMap, track, hit) ==
    IF hit = {} THEN Append(trackMap, track)
    ELSE IF hasVariation(trackMap[Least(hit)]) /\ ~hasVariation(track)
         THEN [trackMap EXCEPT ![Least(hit)] = track]
         ELSE trackMap

\* Array.from(trackMap.values()) after validTracks.forEach, in artist and
\* album mode
RECURSIVE deduplicatedTracks(_, _)
deduplicatedTracks(validTracks, trackMap) ==
    IF validTracks = <<>> THEN trackMap
    ELSE deduplicatedTracks(Tail(validTracks),
             keepCleaner(trackMap, Head(validTracks),
                         {i \in 1..Len(trackMap) :
                              DedupKey(trackMap[i]) = DedupKey(Head(validTracks))}))

\* the screen is mounted, its effect has called getTracksForMode('artist')
\* and fetchTopArtists is under way
InitFetch ==
    /\ StageIdle
    /\ catalog = [phase |-> "artists", next |-> 1, results |-> <<>>, failed |-> FALSE]
    /\ raw = <<>> /\ candidates = <<>> /\ key = NULL /\ found = NULL

\* fetchTopArtists answers: batchFetch starts, or the error is thrown on to
\* the caller of getTracksForMode
FetchTopArtists ==
    /\ catalog.phase = "artists"
    /\ \E ok \in BOOLEAN :
           catalog' = IF ok THEN [catalog EXCEPT !.phase = "batches"]
                      ELSE [catalog EXCEPT !.phase = "rejected", !.failed = TRUE]
    /\ UNCHANGED <<stage, raw, candidates, key, found>>

\* one turn of the loop of batchFetch: the batch's results are added, or
\* the batch fails and the loop is left with the results so far; behind the
\* loop getTracksForMode deduplicates and returns what it has
BatchFetch ==
    /\ catalog.phase = "batches"
    /\ \E ok \in BOOLEAN :
           catalog' =
               IF ok /\ catalog.next < Len(Batches)
               THEN [catalog EXCEPT !.next = @ + 1, !.results = @ \o Batches[catalog.next]]
               ELSE [phase |-> "resolved", next |-> catalog.next,
                     results |-> deduplicatedTracks(
                                     IF ok THEN catalog.results \o Batches[catalog.next]
                                     ELSE catalog.results, <<>>),
                     failed |-> ~ok]
    /\ UNCHANGED <<stage, raw, candidates, key, found>>

\* .then of the effect: fewer than 4 tracks send the player home; otherwise
\* setTracks, and the effects of that render generate the questions and
\* set the timer of the first round
ThenLoaded ==
    /\ catalog.phase = "resolved"
    /\ IF Len(catalog.results) < 4
       THEN /\ catalog' = [catalog EXCEPT !.phase = "home"]
            /\ UNCHANGED <<tracks, questions, hasStartedRef, startPending>>
       ELSE /\ catalog' = [catalog EXCEPT !.phase = "loaded"]
            /\ tracks' = catalog.results
            /\ \E rnd \in GenRandoms :
                   questions' = generateQuestions(catalog.results, mode,
                                    getRoundsCount(settings.rounds, Len(catalog.results)),
                                    rnd)
            /\ hasStartedRef' = TRUE
            /\ startPending' = TRUE
    /\ UNCHANGED <<mode, settings, currentRound, timeRemaining, score, streak, maxStreak,
                   roundResults, isPlaying, isPaused, gameResult, showFeedback,
                   answerFeedback, processingAnswerRef, timers, releasePending,
                   intervalActive, timerEffectPending, deferredTimeout, voice,
                   voiceCount, resets, raw, candidates, key, found>>

\* .catch of the effect: an alert, and the player is sent home
CatchFailed ==
    /\ catalog.phase = "rejected"
    /\ catalog' = [catalog EXCEPT !.phase = "home"]
    /\ UNCHANGED <<stage, raw, candidates, key, found>>

\* the fetch, then a game in which every round times out
NextFetch ==
    \/ FetchTopArtists
    \/ BatchFetch
    \/ ThenLoaded
    \/ CatchFailed
    \/ StartTimerFire
    \/ Tick
    \/ FlushTimerEffect
    \/ NextTimerFire
    \/ FinishTimerFire

SpecFetch == InitFetch /\ [][NextFetch]_vars

(***************************************************************************)
(* useSpotify.batchFetch, request by request                               *)
(***************************************************************************)
\* the most items handed to batchFetch
MaxItems == 6
\* the batch sizes
BatchSizes == 1..3

\* what fetchFn resolves to for an item
fetchFn(item) == [of |-> item]

\* a turn of the loop that goes on with the next batch behind a failed one
batchTurnContinuing(c, batch) ==
    IF c.failing \in Range(batch)
    THEN [c EXCEPT !.requested = @ \o batch, !.i = @ + c.batchSize]
    ELSE [c EXCEPT !.requested = @ \o batch,
                   !.results = @ \o [k \in 1..Len(batch) |-> fetchFn(batch[k])],
                   !.delays = IF c.i + c.batchSize < Len(c.items) THEN @ + 1 ELSE @,
                   !.i = @ + c.batchSize]

\* one turn of the for loop of batchFetch on the batch of items at i
batchTurn(c, batch) ==
    IF c.failing \in Range(batch)
    THEN [c EXCEPT !.phase = "returned", !.requested = @ \o batch]
    ELSE [c EXCEPT !.requested = @ \o batch,
                   !.results = @ \o [k \in 1..Len(batch) |-> fetchFn(batch[k])],
                   !.delays = IF c.i + c.batchSize < Len(c.items) THEN @ + 1 ELSE @,
                   !.i = @ + c.batchSize]

\* batchFetch(items, fetchFn, batchSize, delayMs) is called; the request of
\* item failing, if there is one, will fail
InitBatch ==
    /\ StageIdle
    /\ \E n \in 0..MaxItems : \E size \in BatchSizes : \E failing \in 0..n :
           catalog = [phase |-> "loop", items |-> [k \in 1..n |-> k], batchSize |-> size,
                      failing |-> failing, i |-> 0, results |-> <<>>,
                      requested |-> <<>>, delays |-> 0]
    /\ raw = <<>> /\ candidates = <<>> /\ key = NULL /\ found = NULL

\* items.slice(i, i + batchSize) and the body of the loop
BatchLoopTurn ==
    /\ catalog.phase = "loop"
    /\ catalog.i < Len(catalog.items)
    /\ catalog' = batchTurn(catalog,
                            SubSeq(catalog.items, catalog.i + 1,
                                   Min(catalog.i + catalog.batchSize, Len(catalog.items))))
    /\ UNCHANGED <<stage, raw, candidates, key, found>>

\* the loop is over: return results
BatchLoopExit ==
    /\ catalog.phase = "loop"
    /\ catalog.i >= Len(catalog.items)
    /\ catalog' = [catalog EXCEPT !.phase = "returned"]
    /\ UNCHANGED <<stage, raw, candidates, key, found>>

NextBatch ==
    \/ BatchLoopTurn
    \/ BatchLoopExit

SpecBatch == InitBatch /\ [][NextBatch]_vars

(***************************************************************************)
(* gameSettings: the round options of the settings screen.  An option is   *)
(* kept with its value, label, recommended flag (false where the code      *)
(* leaves it out) and roundCount; the sublabel is display text.            *)
(***************************************************************************)
MaxTrackCount == 31

RoundOption(value, label, recommended, roundCount) ==
    [value |-> value, label |-> label, recommended |-> recommended,
     roundCount |-> roundCount]

getAvailableRoundOptions(trackCount) ==
    IF trackCount < 7
    THEN <<RoundOption("max", "Max", TRUE, trackCount)>>
    ELSE <<RoundOption("short", "Short", FALSE, 5)>>
         \o (IF trackCount >= 11
             THEN <<RoundOption("standard", "Standard", TRUE, 10)>> ELSE <<>>)
         \o (IF trackCount >= 16
             THEN <<RoundOption("long", "Long", FALSE, 15)>> ELSE <<>>)
         \o <<RoundOption("max", "Max", FALSE, trackCount)>>

\* the settings screen knows the number of tracks
InitOptions ==
    /\ StageIdle
    /\ \E n \in 0..MaxTrackCount : catalog = [phase |-> "counted", trackCount |-> n]
    /\ raw = <<>> /\ candidates = <<>> /\ key = NULL /\ found = NULL

\* const options = getAvailableRoundOptions(count)
GetAvailableRoundOptions ==
    /\ catalog.phase = "counted"
    /\ catalog' = [phase |-> "options", trackCount |-> catalog.trackCount,
                   options |-> getAvailableRoundOptions(catalog.trackCount)]
    /\ UNCHANGED <<stage, raw, candidates, key, found>>

\* the player starts a game with one of the options: the hook computes
\* getRoundsCount(settings.rounds, tracks.length)
StartWithOption ==
    /\ catalog.phase = "options" /\ found = NULL
    /\ \E i \in 1..Len(catalog.options) :
           found' = [option |-> catalog.options[i],
                     rounds |-> getRoundsCount(catalog.options[i].value,
                                               catalog.trackCount)]
    /\ UNCHANGED <<stage, catalog, raw, candidates, key>>

NextOptions ==
    \/ GetAvailableRoundOptions
    \/ StartWithOption

SpecOptions == InitOptions /\ [][NextOptions]_vars

(***************************************************************************)
(* Properties                                                              *)
(***************************************************************************)
ResultsOfRound(r) == {i \in 1..Len(roundResults) : roundResults[i].round = r}

\* C1: every round has at most one RoundResult in roundResults, whatever the
\* interleaving of clicks, voice submissions and the countdown's timeout, and
\* every round before the current one has exactly one.
C1_OneResultPerRound ==
    /\ \A r \in 1..Len(questions) : Cardinality(ResultsOfRound(r)) <= 1
    /\ \A r \in 1..currentRound :
           r <= Len(questions) => Cardinality(ResultsOfRound(r)) = 1

\* C2: once the game has finished, GameResult holds every recorded RoundResult,
\* totalScore is the sum of their points and maxStreak is the largest streak
\* any of them records.
C2_GameResultFromResults ==
    gameResult # NULL =>
        /\ gameResult.rounds = roundResults
        /\ gameResult.totalScore = SumPoints(roundResults)
        /\ gameResult.maxStreak = MaxOfStreaks(roundResults)

\* p is Math.round(x / d): the integer with p <= x/d + 1/2 < p + 1
IsRounded(p, x, d) == 2 * d * p <= 2 * x + d /\ 2 * x + d < 2 * d * (p + 1)

\* C3: an incorrect round scores 0; a correct round scores
\* round(100 + timeRemaining / ROUND_TIME * 50 + s * 10), where s is the streak
\* before the round's increment (the recorded streak minus one): 150 for an
\* instant answer with no streak, 100 for one at timeRemaining 0.
C3_PointsFormula ==
    \A i \in 1..Len(roundResults) :
        LET r == roundResults[i]
            s == r.streak - 1
        IN  IF ~r.isCorrect THEN r.points = 0
            ELSE /\ IsRounded(r.points,
                              100 * ROUND_TIME + 50 * r.timeRemaining + 10 * s * ROUND_TIME,
                              ROUND_TIME)
                 /\ s = 0 /\ r.timeRemaining = ROUND_TIME => r.points = 150
                 /\ s = 0 /\ r.timeRemaining = 0 => r.points = 100

\* a correct answer on a streak, at a time where the time bonus is not whole
C3_Witness ==
    \E i \in 1..Len(roundResults) :
        /\ roundResults[i].isCorrect
        /\ roundResults[i].streak = 2
        /\ ROUND_TIME = 20 /\ roundResults[i].timeRemaining = 19
        /\ roundResults[i].points = 158

RECURSIVE RunEndingAt(_, _)
RunEndingAt(results, i) ==
    IF i = 0 \/ ~results[i].isCorrect THEN 0 ELSE 1 + RunEndingAt(results, i - 1)

LongestRun(results) ==
    IF results = <<>> THEN 0
    ELSE LET runs == {RunEndingAt(results, i) : i \in 1..Len(results)}
         IN  CHOOSE n \in runs : \A k \in runs : k <= n

\* C4: the live streak is the length of the trailing run of correct rounds,
\* every RoundResult records the run that ends with it, and the live
\* maxStreak is the longest run so far.
C4_StreakIsTrailingRun ==
    /\ streak = RunEndingAt(roundResults, Len(roundResults))
    /\ \A i \in 1..Len(roundResults) : roundResults[i].streak = RunEndingAt(roundResults, i)
    /\ maxStreak = LongestRun(roundResults)

\* the step records a timeout for round number r + 1
TimeoutRecorded(r) ==
    /\ \E i \in (Len(roundResults) + 1)..Len(roundResults') :
           /\ roundResults'[i].round = r + 1
           /\ roundResults'[i].userAnswer = <<>>
           /\ ~roundResults'[i].isCorrect
           /\ roundResults'[i].points = 0
           /\ roundResults'[i].timeRemaining = 0
    /\ streak' = 0
    /\ ~isPlaying'

\* C5: when the timer effect of a round whose countdown is at 0 runs, it
\* schedules the next round, or the finish after the last round, and the
\* render of its updates records one RoundResult for that round with an
\* empty userAnswer, not correct, 0 points and timeRemaining 0, sets streak
\* to 0 and isPlaying to false: what handleAnswer does for a blank answer.
C5_TimeoutIsBlankAnswer ==
    [][ /\ (timerEffectPending /\ ~timerEffectPending' /\ currentRound < Len(questions)) =>
              /\ Len(timers') > Len(timers)
              /\ timers'[Len(timers')].kind =
                     IF currentRound + 1 >= Len(questions) THEN "finish" ELSE "next"
              /\ IF deferredTimeout' = NULL
                 THEN TimeoutRecorded(currentRound)
                 ELSE deferredTimeout'.currentRound = currentRound
        /\ deferredTimeout # NULL => TimeoutRecorded(deferredTimeout.currentRound) ]_vars

\* a round that timed out after a correct round, waiting for the next round
C5_Witness ==
    /\ Len(roundResults) = 2
    /\ roundResults[1].isCorrect
    /\ roundResults[2].userAnswer = <<>>
    /\ roundResults[2].timeRemaining = 0
    /\ streak = 0 /\ ~isPlaying /\ timers # <<>>

hookVars == <<questions, currentRound, timeRemaining, score, streak, maxStreak,
              roundResults, isPlaying, gameResult>>

\* a RoundResult written by the timer effect
IsTimeoutResult(r) == r.userAnswer = <<>>

NewResults == (Len(roundResults) + 1)..Len(roundResults')

\* C6: a pause click changes isPaused only from a playing, unpaused round and
\* a resume click only from a playing, paused round; neither changes any
\* other state of the hook; while isPaused holds no step lowers
\* timeRemaining or records a timeout, and a resume leaves timeRemaining as
\* it was and restarts the countdown from it.
C6_PauseFreezesCountdown ==
    [][ /\ PauseClick =>
              /\ UNCHANGED hookVars
              /\ isPaused' = (isPlaying /\ ~showFeedback)
        /\ ResumeClick =>
              /\ UNCHANGED hookVars
              /\ isPaused' = ~(isPlaying /\ ~showFeedback)
              /\ (~isPaused' /\ timeRemaining > 0) => intervalActive'
        /\ isPaused =>
              /\ timeRemaining' >= timeRemaining
              /\ \A i \in NewResults : ~IsTimeoutResult(roundResults'[i])
              /\ isPaused' => ~intervalActive' ]_vars

\* a round paused in mid-countdown
C6_Witness ==
    /\ isPlaying /\ isPaused /\ ~intervalActive
    /\ timeRemaining = ROUND_TIME - 1
    /\ currentRound = 1

\* C7: after resetGame, a timeout that handleAnswer scheduled before the reset
\* (any that fires while no answer has been recorded since) changes nothing.
C7_StaleCallbackIsNoOp ==
    [][ (resets > 0 /\ roundResults = <<>> /\ timers # <<>> /\ timers' = Tail(timers)) =>
            UNCHANGED <<hookVars, isPaused>> ]_vars

\* C8: while isPlaying is false no step lowers timeRemaining or records a
\* timeout; a timeout is recorded only for the current round and never after
\* another RoundResult of the same round.
C8_NoTimeoutAfterRoundLeft ==
    [][ /\ ~isPlaying =>
              /\ timeRemaining' >= timeRemaining
              /\ \A i \in NewResults : ~IsTimeoutResult(roundResults'[i])
        /\ \A j \in NewResults :
              IsTimeoutResult(roundResults'[j]) =>
                  /\ roundResults'[j].round = currentRound + 1
                  /\ \A i \in 1..(j - 1) : roundResults'[i].round # roundResults'[j].round
      ]_vars

\* C9: in every state resetGame yields, and every step of it leaves, a state with
\* currentRound 0, timeRemaining ROUND_TIME, score, streak and maxStreak 0, no
\* RoundResult, isPlaying and isPaused false, no GameResult, and questions
\* generated again from the same tracks.
C9_ResetClearsEverything ==
    /\ [](LET w == resetGame(W, ROUND_TIME, questions)
           IN  /\ w.currentRound = 0 /\ w.timeRemaining = ROUND_TIME
               /\ w.score = 0 /\ w.streak = 0 /\ w.maxStreak = 0
               /\ w.roundResults = <<>> /\ ~w.isPlaying /\ ~w.isPaused
               /\ w.gameResult = NULL)
    /\ [][ resets' # resets =>
             /\ currentRound' = 0
             /\ timeRemaining' = ROUND_TIME
             /\ score' = 0 /\ streak' = 0 /\ maxStreak' = 0
             /\ roundResults' = <<>>
             /\ ~isPlaying' /\ ~isPaused'
             /\ gameResult' = NULL
             /\ tracks' = tracks
             /\ \E rnd \in GameRandoms :
                    questions' = generateQuestions(tracks, mode, totalRounds, rnd) ]_vars

\* resetGame called in the delay after an answered round
C9_Witness ==
    /\ resets = 1 /\ timers # <<>>
    /\ currentRound = 0 /\ timeRemaining = ROUND_TIME
    /\ score = 0 /\ streak = 0 /\ maxStreak = 0
    /\ roundResults = <<>> /\ ~isPlaying /\ gameResult = NULL

\* C10: a recorded answer is correct iff it equals a member of the question's
\* correctAnswers or, in genre (track name) mode only, isMatch accepts it
\* against a member at threshold 0.3; in artist and album mode an answer
\* that equals no member is incorrect.
C10_CorrectIffExactOrFuzzyName ==
    \A i \in 1..Len(roundResults) :
        LET r == roundResults[i]
            correctAnswers == questions[r.round].correctAnswers
            exact == \E k \in 1..Len(correctAnswers) : r.userAnswer = correctAnswers[k]
            fuzzy == \E k \in 1..Len(correctAnswers) :
                         isMatch(r.userAnswer, correctAnswers[k], 30)
        IN  /\ r.isCorrect <=> (exact \/ (mode = "genre" /\ fuzzy))
            /\ (mode \in {"artist", "album"} /\ ~exact) => ~r.isCorrect

\* an artist answer one typo away from the correct artist, scored incorrect
C10_Witness ==
    /\ mode = "artist"
    /\ \E i \in 1..Len(roundResults) :
           /\ roundResults[i].userAnswer = Annn
           /\ roundResults[i].correctAnswer = Ann
           /\ isMatch(Annn, Ann, 30)
           /\ ~roundResults[i].isCorrect


PairwiseDistinct(seq) == \A i, j \in 1..Len(seq) : i # j => seq[i] # seq[j]

\* C11: every generated question has at most 4 options, its options are
\* pairwise distinct, correctAnswer is one of them, and correctAnswers
\* contains correctAnswer.
C11_OptionsWellFormed ==
    \A i \in 1..Len(questions) :
        /\ Len(questions[i].options) <= 4
        /\ PairwiseDistinct(questions[i].options)
        /\ questions[i].correctAnswer \in Range(questions[i].options)
        /\ questions[i].correctAnswer \in Range(questions[i].correctAnswers)

\* an artist question of the pool of seven: two values among seven tracks
C11_Witness ==
    /\ mode = "artist" /\ Len(tracks) = 7
    /\ \E i \in 1..Len(questions) : Len(questions[i].options) = 2

\* the grouping key (normalize(name), lowercase(artists[0]))
GroupKey(t) == <<normalizedName(t.name), toLowerCase(t.artist)>>

\* C12: in track-name mode correctAnswers is exactly the set of names of the
\* tracks of the original pool whose grouping key equals the key of the
\* question's track, and every member is the name of a track by the same
\* primary artist; in artist and album mode correctAnswers is exactly
\* {correctAnswer}.
C12_CorrectAnswersAreKeyGroup ==
    \A i \in 1..Len(questions) :
        LET q == questions[i]
        IN  IF mode = "genre"
            THEN /\ Range(q.correctAnswers) =
                        {tracks[k].name : k \in {k \in 1..Len(tracks) :
                                                   GroupKey(tracks[k]) = GroupKey(q.track)}}
                 /\ \A a \in 1..Len(q.correctAnswers) :
                        \E k \in 1..Len(tracks) :
                            /\ tracks[k].name = q.correctAnswers[a]
                            /\ tracks[k].artist = q.track.artist
            ELSE q.correctAnswers = <<q.correctAnswer>>

\* C13: no option other than correctAnswer equals a member of correctAnswers,
\* and in track-name mode no other title of the question's song by the same
\* primary artist is an option.
C13_NoVariantAsDistractor ==
    \A i \in 1..Len(questions) :
        LET q == questions[i]
        IN  /\ \A o \in 1..Len(q.options) :
                   q.options[o] # q.correctAnswer => q.options[o] \notin Range(q.correctAnswers)
            /\ mode = "genre" =>
                   \A k \in 1..Len(tracks) :
                       (/\ tracks[k].artist = q.track.artist
                        /\ normalizedName(tracks[k].name) = normalizedName(q.track.name)
                        /\ tracks[k].name # q.correctAnswer)
                       => tracks[k].name \notin Range(q.options)

\* a song with two accepted titles, one of which is also the title of another
\* artist's track in the pool
C13_Witness ==
    /\ mode = "genre" /\ tracks = PoolSeven
    /\ \E i \in 1..Len(questions) :
           /\ questions[i].track.id = 1
           /\ Range(questions[i].correctAnswers) = {Song, SongRemix}
           /\ Len(questions[i].options) = 4

\* C14: when the working pool (after deduplication) has fewer than 4 tracks,
\* no question is generated.
C14_SmallPoolNoQuestions ==
    Len(tracksForQuestions(tracks, mode)) < 4 => questions = <<>>

\* the target number of rounds of a rounds setting
RoundsTarget(setting) ==
    CASE setting = "short" -> 5
      [] setting = "standard" -> 10
      [] setting = "long" -> 15
      [] setting = "max" -> 30

\* C15: for a pool of at least 4 tracks there are exactly
\* min(desiredRoundCount, poolSize) questions, poolSize being the size of the
\* deduplicated pool; they are backed by pairwise distinct tracks of that
\* pool and carry the round numbers 1..N in order.
C15_QuestionCount ==
    [][ (Len(tracks) >= 4 /\ (questions' # questions \/ resets' # resets)) =>
            /\ Len(questions') = Min(RoundsTarget(settings.rounds),
                                     Len(tracksForQuestions(tracks, mode)))
            /\ PairwiseDistinct([i \in 1..Len(questions') |-> questions'[i].track.id])
            /\ \A i \in 1..Len(questions') :
                   /\ questions'[i].track \in Range(tracksForQuestions(tracks, mode))
                   /\ questions'[i].round = i ]_vars

\* six songs in the pool, five questions
C15_Witness ==
    /\ mode = "genre" /\ Len(tracks) = 7
    /\ Len(tracksForQuestions(tracks, mode)) = 6
    /\ Len(questions) = 5

\* C16: findBestMatch(c, candidates, t) for a member c of a non-empty list
\* of candidates returns a result, with confidence 1.0 and c as its match.
C16_MemberMatchesItself ==
    found # NULL =>
        /\ found.result # NULL
        /\ found.result.confidence = 100
        /\ found.result.match = found.query

\* C17: normalizeTrackName is idempotent: applied to a name it returned, it
\* returns that name.
C17_NormalizeIdempotent ==
    key # NULL => normalizeTrackName(key.name) = key.name

\* C18: a name and the same name without its accents have the same
\* normalized name.
C18_AccentInsensitive ==
    key # NULL => normalizeTrackName(removeAccents(key.of)) = key.name

\* C19: when a request of the catalog fetch has failed, the fetch ends in an
\* error for its caller, no track list reaches the hook, no question is
\* generated and no round is played.
C19_FailedFetchIsTerminal ==
    catalog.failed =>
        /\ catalog.phase \in {"rejected", "home"}
        /\ tracks = <<>>
        /\ questions = <<>>
        /\ ~isPlaying /\ currentRound = 0 /\ roundResults = <<>>

\* the current round has a RoundResult and is not the last one
RoundConcluded ==
    /\ ~isPlaying /\ gameResult = NULL
    /\ ResultsOfRound(currentRound + 1) # {}
    /\ currentRound + 1 < Len(questions)

\* C20: after a round with more rounds to come has concluded, currentRound
\* and isPlaying = false stay as they are until the delay's timer fires;
\* that step raises currentRound by 1 and starts the next round with
\* timeRemaining = ROUND_TIME, isPlaying and not isPaused; and currentRound
\* changes in no other step.
C20_DelayThenNextRound ==
    [][ /\ (RoundConcluded /\ (currentRound' # currentRound \/ isPlaying')) =>
              /\ timers # <<>> /\ Head(timers).kind = "next" /\ timers' = Tail(timers)
              /\ currentRound' = currentRound + 1
              /\ timeRemaining' = ROUND_TIME
              /\ isPlaying' /\ ~isPaused'
        /\ currentRound' # currentRound => RoundConcluded ]_vars

\* the last round has a RoundResult and the game has not finished
LastRoundConcluded ==
    /\ ~isPlaying /\ gameResult = NULL
    /\ currentRound + 1 = Len(questions)
    /\ ResultsOfRound(currentRound + 1) # {}

\* C21: the GameResult is set only by the timer of the delay behind the
\* last round's RoundResult, and that timer sets it; once it is set it
\* stays as it is and no round is playing; and currentRound never passes
\* the index of the last question.
C21_FinishAfterDelay ==
    [][ /\ gameResult' # gameResult =>
              /\ LastRoundConcluded
              /\ timers # <<>> /\ Head(timers).kind = "finish" /\ timers' = Tail(timers)
        /\ (LastRoundConcluded /\ timers # <<>> /\ Head(timers).kind = "finish"
                /\ timers' = Tail(timers)) => gameResult' # NULL
        /\ gameResult # NULL => UNCHANGED <<gameResult, currentRound, isPlaying>>
        /\ gameResult' # NULL => ~isPlaying'
        /\ currentRound' < Len(questions') ]_vars

\* the places in the original pool of the tracks with the grouping key of t
GroupOf(t) == {k \in 1..Len(tracks) : GroupKey(tracks[k]) = GroupKey(t)}

\* the first of the clean places of a list, the first of the group if there
\* is none
CleanFirstOf(list, group, clean) == list[Least(IF clean # {} THEN clean ELSE group)]

\* the representative by the prefer-clean rule: the first of the group whose
\* title has no qualifier, the first of the group if there is none
CleanFirst(group, clean) == CleanFirstOf(tracks, group, clean)

\* C22: in track-name mode the pool of question selection holds one track
\* per grouping key, every question is backed by the representative the
\* prefer-clean rule chooses for its group, and no two questions are backed
\* by tracks with the same grouping key.
C22_CleanRepresentativePerSong ==
    (mode = "genre" /\ questions # <<>>) =>
        /\ \E pool \in {tracksForQuestions(tracks, mode)} :
               \A k \in 1..Len(tracks) :
                   Cardinality({p \in 1..Len(pool) :
                                   GroupKey(pool[p]) = GroupKey(tracks[k])}) = 1
        /\ \A i \in 1..Len(questions) :
               questions[i].track =
                   CleanFirst(GroupOf(questions[i].track),
                              {k \in GroupOf(questions[i].track) : ~hasVariation(tracks[k])})
        /\ \A i, j \in 1..Len(questions) :
               i # j => GroupKey(questions[i].track) # GroupKey(questions[j].track)

\* the tracks of the first n batches, as fetched
RECURSIVE FetchedFrom(_)
FetchedFrom(n) == IF n = 0 THEN <<>> ELSE FetchedFrom(n - 1) \o Batches[n]

\* the places in the fetched list of the tracks with the key of track t
KeyGroup(fetched, t) == {k \in 1..Len(fetched) : GroupKey(fetched[k]) = GroupKey(t)}

\* the first of the group whose name is its normalized name (in the lower
\* case of the key), the first of the group if there is none
FirstClean(fetched, group) ==
    CleanFirstOf(fetched, group,
                 {k \in group : toLowerCase(fetched[k].name) = normalizedName(fetched[k].name)})

BeforeBatchOf(f, size) == ((f - 1) \div size) * size

\* C24: batchFetch requests the items in order, batch by batch; when a
\* request of a batch fails, no item of a later batch is requested and
\* the call returns the results of the items of the earlier batches, in
\* order, and none of the failing batch; without a failure it returns one
\* result per item in order, after one delay between two batches and none
\* behind the last.
C24_BatchFetchPartialInOrder ==
    /\ catalog.requested = SubSeq(catalog.items, 1, Len(catalog.requested))
    /\ catalog.phase = "loop" =>
           /\ Len(catalog.requested) = Min(catalog.i, Len(catalog.items))
           /\ catalog.i % catalog.batchSize = 0
    /\ catalog.phase = "returned" =>
           IF catalog.failing = 0
           THEN /\ catalog.requested = catalog.items
                /\ catalog.results = [k \in 1..Len(catalog.items) |-> fetchFn(catalog.items[k])]
                /\ IF catalog.items = <<>> THEN catalog.delays = 0
                   ELSE /\ catalog.delays * catalog.batchSize < Len(catalog.items)
                        /\ (catalog.delays + 1) * catalog.batchSize >= Len(catalog.items)
           ELSE /\ Len(catalog.requested) =
                       Min(BeforeBatchOf(catalog.failing, catalog.batchSize) + catalog.batchSize,
                           Len(catalog.items))
                /\ catalog.results =
                       [k \in 1..BeforeBatchOf(catalog.failing, catalog.batchSize) |->
                           fetchFn(catalog.items[k])]

\* six items in batches of two, the request of the fourth fails: four
\* items were requested and the results of the first two are returned
C24_Witness ==
    /\ catalog.phase = "returned"
    /\ Len(catalog.items) = 6 /\ catalog.batchSize = 2 /\ catalog.failing = 4
    /\ Len(catalog.requested) = 4
    /\ Len(catalog.results) = 2
    /\ catalog.delays = 1

\* the step records an answer a player handed in
UserResults == {i \in NewResults : ~IsTimeoutResult(roundResults'[i])}

\* C25: the screen's guard processingAnswerRef is released only when the
\* timer of the post-answer delay has fired and the current round has no
\* RoundResult; while the guard is set no answer of a player is recorded;
\* and an answer of a player is recorded only for the round that is
\* playing.
C25_GuardCoversDelay ==
    [][ /\ (processingAnswerRef /\ ~processingAnswerRef') =>
              /\ timers = <<>>
              /\ ResultsOfRound(currentRound + 1) = {}
        /\ processingAnswerRef => UserResults = {}
        /\ \A i \in UserResults :
              isPlaying /\ roundResults'[i].round = currentRound + 1 ]_vars

\* C26: the screen sets the timer that starts the first round once: it is
\* never set again, in particular not in the delay behind round 1, and no
\* step starts a round that has a RoundResult.
C26_FirstRoundStartedOnce ==
    [][ /\ ~startPending => ~startPending'
        /\ (startPending /\ ~startPending') => roundResults = <<>> /\ currentRound = 0
        /\ (~isPlaying /\ isPlaying') => ResultsOfRound(currentRound' + 1) = {} ]_vars

\* the delay behind the first round: currentRound is still that of round 1,
\* no round is playing, and no start is scheduled
C26_Witness ==
    /\ currentRound = 0 /\ ~isPlaying
    /\ Len(roundResults) = 1
    /\ hasStartedRef /\ ~startPending
    /\ timers # <<>> /\ Head(timers).kind = "next"

\* C27: score is the sum of the points of the RoundResults recorded so far,
\* and the i-th RoundResult is that of round i.
C27_ScoreAndRoundNumbers ==
    /\ score = SumPoints(roundResults)
    /\ \A i \in 1..Len(roundResults) : roundResults[i].round = i

\* The schedule of the browser: a timeout that is due fires, an effect that
\* is scheduled runs, a render that is outstanding is committed, the interval
\* ticks again and again while it is set, and a paused game is resumed.  The
\* player's answers and pauses are not forced.
Fairness ==
    /\ WF_vars(StartTimerFire)
    /\ SF_vars(Tick)
    /\ WF_vars(FlushTimerEffect)
    /\ WF_vars(ApplyDeferredTimeout)
    /\ WF_vars(NextTimerFire)
    /\ WF_vars(FinishTimerFire)
    /\ WF_vars(ReleaseTimerFire)
    /\ WF_vars(ResumeClick)

\* games played with clicks, pauses and timeouts
NextLive ==
    \/ StartTimerFire
    \/ Tick
    \/ FlushTimerEffect
    \/ ApplyDeferredTimeout
    \/ NextTimerFire
    \/ FinishTimerFire
    \/ ReleaseTimerFire
    \/ AnswerClick
    \/ PauseClick
    \/ ResumeClick

SpecLive == Init /\ [][NextLive]_vars /\ Fairness

\* the game has finished with one RoundResult per question, in order
FinishedComplete ==
    /\ gameResult # NULL
    /\ Len(gameResult.rounds) = Len(questions)
    /\ \A i \in 1..Len(questions) : gameResult.rounds[i].round = i

\* C28: once the first round of a game with questions has started, the game
\* eventually is finished with a GameResult of one RoundResult per question.
C28_EventuallyFinished ==
    (~startPending /\ questions # <<>>) ~> FinishedComplete

\* C29: whenever the questions are generated (by the initializing effect or
\* by resetGame), their number is the totalRounds the hook reports.
C29_TotalRoundsIsQuestionCount ==
    [][ (questions' # questions \/ resets' # resets) =>
            Len(questions') = totalRounds' ]_vars

\* C30: the roundCount that an offered option advertises is the number of
\* rounds getRoundsCount gives for the option's value and the track count.
C30_AdvertisedRoundCount ==
    found # NULL => found.option.roundCount = found.rounds

====
